---- MODULE Spec2Model ----
(***************************************************************************)
(* The watch-driven cache of controller-runtime-node: DefaultCache         *)
(* (src/src/DefaultKubeClient.ts, lines 211-354) together with the remote  *)
(* store it lists and watches through the KubeClient interface.            *)
(*                                                                         *)
(* Optional JavaScript values (x?: T, undefined) are sets of at most one   *)
(* element: {} is undefined and {v} is the value v.  A JavaScript          *)
(* dictionary is a function whose DOMAIN is the set of its own keys.       *)
(***************************************************************************)
EXTENDS Integers, Sequences, FiniteSets, TLC

\* ------------------------------------------------------------------ bounds
\* how many changes the remote store makes, over all resource types
MaxChanges == 2
\* how many listeners are registered, over all resource types
MaxListeners == 2
\* how many ADDED, MODIFIED and DELETED events the replayed streams deliver
MaxEvents == 3

\* ------------------------------------------------------- program constants
resourceVersionExpiredReason == "Expired"
resourceVersionExpiredCode == 410
NotFoundCode == 404

\* ------------------------------------------------------------- value sets
\* resource types, already in the form groupVersionKindKey gives them
Types == {"v1/A", "v1/B"}
\* instances of a type, already in the form namespacedName gives them
Keys == {"ns/a", "ns/b"}
\* the event kinds a stream can deliver: KubernetesEventType and a kind
\* outside the enum
ADDED == "ADDED"
MODIFIED == "MODIFIED"
DELETED == "DELETED"
BOOKMARK == "BOOKMARK"
ERROR == "ERROR"
UNKNOWN == "UNKNOWN"
KubernetesEventType == {ADDED, MODIFIED, DELETED, BOOKMARK, ERROR}
\* the status objects an ERROR event can carry
Statuses ==
  { [code |-> resourceVersionExpiredCode, reason |-> resourceVersionExpiredReason],
    [code |-> resourceVersionExpiredCode, reason |-> "Gone"],
    [code |-> NotFoundCode, reason |-> resourceVersionExpiredReason] }
Flows == {1}
\* the start() calls followed when start() is called again
Starts == {1, 2}

\* has() of @0cfg/utils-common: the value is neither undefined nor null
has(x) == x # {}

\* a resource instance: its type, its namespace/name and its resourceVersion
\* (the store gives every snapshot of an instance a new resourceVersion, so
\* the resourceVersion also stands for the content of the snapshot)
KubernetesObject(t, k, rv) ==
  [apiVersionKind |-> t, nn |-> k, resourceVersion |-> {rv}]

groupVersionKindKey(object) == object.apiVersionKind
namespacedName(object) == object.nn

VARIABLES
  listeners,   \* DefaultCache.listeners: gvk -> sequence of callbacks
  cache,       \* DefaultCache.cache, the Index: gvk -> (namespacedName -> object)
  metadata,    \* DefaultCache.metadata: gvk -> [lastResourceVersion, resourcePath]
  cacheSync,   \* DefaultCache.cacheSync: {} or {n}, the promise of the n-th start()
  flows,       \* gvk -> start() number -> where that startWatch chain stands
  remote,      \* the remote store: gvk -> (namespacedName -> object)
  rlog,        \* the remote store's change history: gvk -> sequence of events
  nListeners,  \* callbacks handed to addListener so far
  lastOp,      \* the last step: the operation, its inputs and its outcome
  calls,       \* the listener invocations made by the last stream event
  applied      \* gvk -> the ADDED, MODIFIED and DELETED events applied to the Index

vars == << listeners, cache, metadata, cacheSync, flows, remote, rlog,
           nListeners, lastOp, calls >>

\* ------------------------------------------------------------ dictionaries
EmptyDict == [x \in {} |-> {}]
Put(f, k, v) == [x \in DOMAIN f \cup {k} |-> IF x = k THEN v ELSE f[x]]
DeleteKey(f, k) == [x \in DOMAIN f \ {k} |-> f[x]]

RECURSIVE SumLen(_, _)
SumLen(f, S) ==
  IF S = {} THEN 0
  ELSE LET t == CHOOSE x \in S : TRUE IN Len(f[t]) + SumLen(f, S \ {t})

\* ------------------------------------------------------------ remote store
\* the store's revision: every change, of any type, takes the next one
Revision == SumLen(rlog, Types)

Event(type, object) == [type |-> type, object |-> object]

\* the orders in which the store can return or replay the instances of a type
ItemOrders(objs) ==
  { s \in [1..Cardinality(DOMAIN objs) -> DOMAIN objs] :
      \A i, j \in DOMAIN s : i # j => s[i] # s[j] }
Items(objs, order) == [i \in DOMAIN order |-> objs[order[i]]]

\* how many events of a history are at or before revision rv
RECURSIVE SeenUpTo(_, _)
SeenUpTo(log, rv) ==
  IF log = << >> THEN 0
  ELSE (IF \E r \in log[1].object.resourceVersion : r <= rv THEN 1 ELSE 0)
       + SeenUpTo(Tail(log), rv)

\* the store changes one instance of one type
RemoteChange(t, k, del) ==
  /\ Revision < MaxChanges
  /\ LET rv == Revision + 1
         obj == KubernetesObject(t, k, rv)
         type == IF k \notin DOMAIN remote[t] THEN ADDED
                 ELSE IF del THEN DELETED ELSE MODIFIED
     IN /\ (k \notin DOMAIN remote[t]) => ~del
        /\ remote' = [remote EXCEPT ![t] =
                        IF type = DELETED THEN DeleteKey(@, k) ELSE Put(@, k, obj)]
        /\ rlog' = [rlog EXCEPT ![t] = Append(@, Event(type, obj))]
  /\ lastOp' = [op |-> "remoteChange", gvk |-> t]
  /\ calls' = << >>
  /\ UNCHANGED << listeners, cache, metadata, cacheSync, flows, nListeners >>

\* ------------------------------------------------------------ DefaultCache
GetAPIResourcePath(t) == << "apis", t >>

\* where a startWatch chain stands (pc), the path and the token its watch
\* call carries, what its stream has still to deliver (pre, pos), whether its
\* token has expired since its last list, and how many streams it has open
NoFlow == [pc |-> "none", path |-> {}, resumeFrom |-> {}, pre |-> << >>,
           pos |-> 0, expired |-> FALSE, open |-> 0]

Init ==
  /\ listeners = EmptyDict
  /\ cache = EmptyDict
  /\ metadata = EmptyDict
  /\ cacheSync = {}
  /\ flows = [t \in Types |-> [f \in Flows |-> NoFlow]]
  /\ remote = [t \in Types |-> EmptyDict]
  /\ rlog = [t \in Types |-> << >>]
  /\ nListeners = 0
  /\ lastOp = [op |-> "new"]
  /\ calls = << >>
  /\ applied = [t \in Types |-> << >>]

\* addListener without its guard
AddListenerGuard_Never(cs) == FALSE

\* addListener, lines 235-245
AddListenerGuard(cs) == has(cs)

AddListener(t) ==
  IF AddListenerGuard(cacheSync)
  THEN /\ lastOp' = [op |-> "addListener", outcome |-> "Error"]
       /\ calls' = << >>
       /\ UNCHANGED << listeners, cache, metadata, cacheSync, flows, remote,
                       rlog, nListeners >>
  ELSE /\ nListeners < MaxListeners
       /\ LET cb == nListeners + 1
              fresh == t \notin DOMAIN listeners
              ls == IF fresh THEN << >> ELSE listeners[t]
          IN /\ listeners' = Put(listeners, t, Append(ls, cb))
             /\ cache' = IF fresh THEN Put(cache, t, EmptyDict) ELSE cache
       /\ nListeners' = nListeners + 1
       /\ lastOp' = [op |-> "addListener", outcome |-> "ok", gvk |-> t,
                     cb |-> nListeners + 1]
       /\ calls' = << >>
       /\ UNCHANGED << metadata, cacheSync, flows, remote, rlog >>

\* get, lines 247-258: the outcome and what Object.assign copies into spec.
\* The guard is !has(cache[gvk] || !has(cache[gvk][nn])): when cache[gvk] is
\* an object, || yields that object; when it is undefined, the right operand
\* reads a property of undefined, which throws a TypeError.
CacheGet(c, t, k) ==
  IF t \notin DOMAIN c
  THEN [outcome |-> "TypeError", value |-> {}]
  ELSE LET operand == {c[t]}
       IN IF ~has(operand)
          THEN [outcome |-> "NotFound", value |-> {}]
          ELSE [outcome |-> "ok",
                value |-> IF k \in DOMAIN c[t] THEN {c[t][k]} ELSE {}]

\* a get that, on a miss, reads the instance from the store and keeps it
Get_ReadThrough(t, k) ==
  /\ LET r == CacheGet(cache, t, k)
     IN lastOp' = [op |-> "get", gvk |-> t, nn |-> k,
                   outcome |-> r.outcome, value |-> r.value,
                   client |-> IF has(r.value) THEN {} ELSE {"get"}]
  /\ cache' = IF t \in DOMAIN cache /\ k \in DOMAIN remote[t]
              THEN [cache EXCEPT ![t] = Put(@, k, remote[t][k])] ELSE cache
  /\ calls' = << >>
  /\ UNCHANGED << listeners, metadata, cacheSync, flows, remote, rlog, nListeners >>

\* get awaits nothing and has no call on this.client: client, the set of
\* KubeClient operations the call invoked, is empty
Get(t, k) ==
  /\ LET r == CacheGet(cache, t, k)
     IN lastOp' = [op |-> "get", gvk |-> t, nn |-> k,
                   outcome |-> r.outcome, value |-> r.value, client |-> {}]
  /\ calls' = << >>
  /\ UNCHANGED << listeners, cache, metadata, cacheSync, flows, remote, rlog, nListeners >>

\* ------------------------------------------------------- CachedKubeClient
\* what get can throw or reject with. NotFound (KubernetesError.ts) is a
\* KubernetesError: it keeps the object it is built from in its field error
\* and has no field body. A TypeError has neither. The error of a failed
\* remote read carries the status the store answered in its field body.
NotFound ==
  [name |-> "NotFound",
   error |-> {[code |-> {NotFoundCode}, reason |-> {}, message |-> {"NOT FOUND"}]},
   body |-> {}]
TypeError == [name |-> "TypeError", error |-> {}, body |-> {}]
HttpNotFound ==
  [name |-> "HttpError", error |-> {},
   body |-> {[code |-> {NotFoundCode}, reason |-> {"NotFound"}, message |-> {"not found"}]}]

\* isKubernetesError and isNotFoundError
isKubernetesError(object) ==
  /\ has(object.body)
  /\ \A body \in object.body : has(body.code) /\ has(body.reason) /\ has(body.message)
isNotFoundError(err) ==
  /\ isKubernetesError(err)
  /\ \A body \in err.body : body.code = {NotFoundCode}

\* what DefaultCache.get throws, if anything
Thrown(r) ==
  IF r.outcome = "NotFound" THEN {NotFound}
  ELSE IF r.outcome = "TypeError" THEN {TypeError}
  ELSE {}

\* DefaultKubeClient.get: a read of the store
RemoteGet(t, k) ==
  IF k \in DOMAIN remote[t]
  THEN [outcome |-> "ok", value |-> {remote[t][k]}]
  ELSE [outcome |-> HttpNotFound.name, value |-> {}]

\* CachedKubeClient.get: the cache first; the store when the cache throws an
\* error that isNotFoundError accepts; any other error is thrown again.
\* remoteReads counts the calls of super.get.
CachedGet(t, k) ==
  /\ LET r == CacheGet(cache, t, k)
         e == Thrown(r)
         fallsBack == \E err \in e : isNotFoundError(err)
         res == IF ~has(e) THEN [outcome |-> "ok", value |-> r.value]
                ELSE IF fallsBack THEN RemoteGet(t, k)
                ELSE [outcome |-> (CHOOSE err \in e : TRUE).name, value |-> {}]
     IN lastOp' = [op |-> "cachedGet", gvk |-> t, nn |-> k,
                   outcome |-> res.outcome, value |-> res.value,
                   remoteReads |-> IF fallsBack THEN 1 ELSE 0]
  /\ calls' = << >>
  /\ UNCHANGED << listeners, cache, metadata, cacheSync, flows, remote, rlog, nListeners >>

\* waitForSync, lines 260-262: the promise it returns is already resolved
WaitForSyncResolved(md, c) == TRUE

WaitForSync ==
  /\ lastOp' = [op |-> "waitForSync",
                resolved |-> WaitForSyncResolved(metadata, cache)]
  /\ calls' = << >>
  /\ UNCHANGED << listeners, cache, metadata, cacheSync, flows, remote, rlog, nListeners >>

\* startWatch up to its first await, lines 269-276: the re-list guard, then
\* either the list call of initializeCache or the watch call
NeedsList(md, t) ==
  t \notin DOMAIN md \/ has(md[t].lastResourceVersion)

\* a watch call that carries no resume token
WatchCall_FromNow(md, t, was) ==
  [pc |-> "opening", path |-> {md[t].resourcePath},
   resumeFrom |-> {}, pre |-> << >>,
   pos |-> 0, expired |-> was.expired, open |-> was.open]

WatchCall(md, t, was) ==
  [pc |-> "opening", path |-> {md[t].resourcePath},
   resumeFrom |-> md[t].lastResourceVersion, pre |-> << >>,
   pos |-> 0, expired |-> was.expired, open |-> was.open]

StartWatch(md, t, was) ==
  IF NeedsList(md, t)
  THEN [pc |-> "listing", path |-> {}, resumeFrom |-> {}, pre |-> << >>,
        pos |-> 0, expired |-> was.expired, open |-> was.open]
  ELSE WatchCall(md, t, was)

\* start and startSync, lines 231-233 and 264-267
Started == IF has(cacheSync) THEN CHOOSE n \in cacheSync : TRUE ELSE 0

\* start() has no guard: every call runs startSync again. S is the set of
\* calls a specification follows.
StartIn(S) ==
  /\ Started + 1 \in S
  /\ cacheSync' = {Started + 1}
  /\ flows' = [t \in Types |->
                 IF t \in DOMAIN cache
                 THEN [flows[t] EXCEPT ![Started + 1] = StartWatch(metadata, t, NoFlow)]
                 ELSE flows[t]]
  /\ lastOp' = [op |-> "start"]
  /\ calls' = << >>
  /\ UNCHANGED << listeners, cache, metadata, remote, rlog, nListeners >>

\* the one start() a controller is meant to make
Start == StartIn(Flows)

\* recordObjectAdded / Modified / Deleted, lines 340-352
recordObjectAdded(c, obj) ==
  [c EXCEPT ![groupVersionKindKey(obj)] = Put(@, namespacedName(obj), obj)]
recordObjectModified(c, obj) ==
  [c EXCEPT ![groupVersionKindKey(obj)] = Put(@, namespacedName(obj), obj)]
\* a delete that leaves the entry in place
recordObjectDeleted_Keeps(c, obj) == c

recordObjectDeleted(c, obj) ==
  [c EXCEPT ![groupVersionKindKey(obj)] = DeleteKey(@, namespacedName(obj))]

\* initializeCache, lines 334-337: the forEach over list.items
RECURSIVE InitializeCacheItems(_, _)
InitializeCacheItems(c, items) ==
  IF items = << >> THEN c
  ELSE InitializeCacheItems(
         recordObjectAdded(Put(c, groupVersionKindKey(Head(items)), EmptyDict),
                           Head(items)),
         Tail(items))

\* initializeCache, lines 326-333: the metadata a list response leaves
ListMetadata(md, t, rv) ==
  Put(md, t, [lastResourceVersion |-> {rv}, resourcePath |-> GetAPIResourcePath(t)])

\* the list (and path) calls of initializeCache succeed; initializeCache runs
\* to its end and startWatch goes on to its watch call
ListOk(t, f) ==
  /\ flows[t][f].pc = "listing"
  /\ \E order \in ItemOrders(remote[t]) :
       LET items == Items(remote[t], order)
           md == ListMetadata(metadata, t, Revision)
           c == InitializeCacheItems(cache, items)
       IN /\ metadata' = md
          /\ cache' = c
          /\ flows' = [flows EXCEPT ![t][f] =
                         WatchCall(md, t, [flows[t][f] EXCEPT !.expired = FALSE])]
          /\ lastOp' = [op |-> "list", gvk |-> t, flow |-> f, items |-> items,
                        cursor |-> {Revision},
                        relist |-> t \in DOMAIN metadata]
  /\ calls' = << >>
  /\ UNCHANGED << listeners, cacheSync, remote, rlog, nListeners >>

\* a failed list that startWatch tries again
ListFail_Retries(t, f) ==
  /\ flows[t][f].pc = "listing"
  /\ lastOp' = [op |-> "listFailed", gvk |-> t, flow |-> f]
  /\ calls' = << >>
  /\ UNCHANGED << listeners, cache, metadata, cacheSync, flows, remote, rlog, nListeners >>

\* the list (or path) call of initializeCache fails: the promise of
\* startWatch rejects and nothing catches it
ListFail(t, f) ==
  /\ flows[t][f].pc = "listing"
  /\ flows' = [flows EXCEPT ![t][f].pc = "dead"]
  /\ lastOp' = [op |-> "listFailed", gvk |-> t, flow |-> f]
  /\ calls' = << >>
  /\ UNCHANGED << listeners, cache, metadata, cacheSync, remote, rlog, nListeners >>

\* client.watch resolves, line 274: the stream is open. With a resume token
\* the store replays the changes after it; without one it first reports every
\* current instance as ADDED.
WatchOpened(t, f) ==
  /\ flows[t][f].pc = "opening"
  /\ \E order \in ItemOrders(remote[t]) :
       LET fl == flows[t][f]
           replay == [i \in DOMAIN order |-> Event(ADDED, remote[t][order[i]])]
       IN flows' = [flows EXCEPT ![t][f] =
            IF has(fl.resumeFrom)
            THEN [fl EXCEPT !.pc = "streaming", !.pre = << >>,
                            !.resumeFrom = {}, !.open = @ + 1,
                            !.pos = SeenUpTo(rlog[t], CHOOSE r \in fl.resumeFrom : TRUE)]
            ELSE [fl EXCEPT !.pc = "streaming", !.pre = replay,
                            !.open = @ + 1, !.pos = Len(rlog[t])]]
  /\ lastOp' = [op |-> "watchOpened", gvk |-> t, flow |-> f]
  /\ calls' = << >>
  /\ UNCHANGED << listeners, cache, metadata, cacheSync, remote, rlog, nListeners >>

\* client.watch rejects: the promise of startWatch rejects
WatchFail(t, f) ==
  /\ flows[t][f].pc = "opening"
  /\ flows' = [flows EXCEPT ![t][f].pc = "dead"]
  /\ lastOp' = [op |-> "watchFailed", gvk |-> t, flow |-> f]
  /\ calls' = << >>
  /\ UNCHANGED << listeners, cache, metadata, cacheSync, remote, rlog, nListeners >>

\* what the store sends next on an open stream: the next replayed or logged
\* change of the type, or the ERROR event that tells that the resume token
\* of the stream has expired
Expired == [code |-> resourceVersionExpiredCode, reason |-> resourceVersionExpiredReason]

StreamInputs(t, f) ==
  LET fl == flows[t][f]
  IN (IF fl.pre # << >>
      THEN { [type |-> Head(fl.pre).type, object |-> Head(fl.pre).object, from |-> "pre"] }
      ELSE IF fl.pos < Len(rlog[t])
      THEN { [type |-> rlog[t][fl.pos + 1].type,
              object |-> rlog[t][fl.pos + 1].object, from |-> "log"] }
      ELSE {})
     \cup { [type |-> ERROR, object |-> Expired, from |-> "none"] }

\* the switch of the event callback, lines 278-301: what it does to the Index
SwitchCache(c, type, apiObject) ==
  CASE type = ADDED -> recordObjectAdded(c, apiObject)
    [] type = MODIFIED -> recordObjectModified(c, apiObject)
    [] type = DELETED -> recordObjectDeleted(c, apiObject)
    [] OTHER -> c

\* a switch in which the bookmark and the unrecognized kinds break as well
FallsThrough_AllButError(type) == type \in {ADDED, MODIFIED, DELETED, BOOKMARK, UNKNOWN}

\* the switch of the event callback: the cases that break out of the switch
\* and go on to lines 302-307; the others return
FallsThrough(type) == type \in {ADDED, MODIFIED, DELETED}

\* lines 290-291
IsExpired(status) ==
  status.code = resourceVersionExpiredCode /\ status.reason = resourceVersionExpiredReason

\* a callback that leaves the resume token alone
AdvanceToken_Skips(md, t, apiObject) == md

\* lines 302-304; every instance of the model has metadata
AdvanceToken(md, t, apiObject) ==
  [md EXCEPT ![t].lastResourceVersion = apiObject.resourceVersion]

\* an expiry that clears the resume token of every type
ClearToken_OfAll(md, t) ==
  [u \in DOMAIN md |-> [md[u] EXCEPT !.lastResourceVersion = {}]]

\* line 292
ClearToken(md, t) == [md EXCEPT ![t].lastResourceVersion = {}]

\* a forEach that catches what a listener throws and goes on
NotifyListeners_Catching(ls, throwAt, given) ==
  [i \in 1..Len(ls) |->
     [listener |-> ls[i], type |-> given.type, apiObject |-> given.apiObject,
      watchObject |-> given.watchObject, index |-> given.index,
      lastResourceVersion |-> given.lastResourceVersion]]

\* lines 306-307: forEach over the listeners of the type, in order; a
\* listener that throws (the throwAt-th; 0 when none does) ends the forEach.
\* Each invocation is recorded with what the listener is given and with the
\* Index and resume token of the type at that moment.
NotifyListeners(ls, throwAt, given) ==
  [i \in 1..(IF throwAt = 0 THEN Len(ls) ELSE throwAt) |->
     [listener |-> ls[i], type |-> given.type, apiObject |-> given.apiObject,
      watchObject |-> given.watchObject, index |-> given.index,
      lastResourceVersion |-> given.lastResourceVersion]]

\* listeners notified before the callback has touched the state
SeenByListeners_Before(before, after) == before

\* what a listener can observe while it runs: the state the callback has
\* reached when line 306 starts
SeenByListeners(before, after) == after

\* an expiry branch that restarts the flow itself instead of leaving the
\* restart to the done callback of the aborted stream
Abort_Restarts(md, t, fl) == StartWatch(md, t, [fl EXCEPT !.expired = TRUE])

\* lines 293-294: req.abort() and return; the restart is left to the done
\* callback, which the aborted stream calls
Abort(md, t, fl) == [fl EXCEPT !.pc = "aborted", !.expired = TRUE]

\* the event callback of startWatch, lines 277-308
WatchEvent(t, f, in, throwAt) ==
  /\ flows[t][f].pc = "streaming"
  /\ throwAt \in 0..Len(listeners[t])
  /\   LET fl == flows[t][f]
           moved == IF in.from = "pre" THEN [fl EXCEPT !.pre = Tail(@)]
                    ELSE IF in.from = "log" THEN [fl EXCEPT !.pos = @ + 1]
                    ELSE fl
           watchObject == Event(in.type, in.object)
       IN IF FallsThrough(in.type)
          THEN LET c == SwitchCache(cache, in.type, in.object)
                   md == AdvanceToken(metadata, t, in.object)
               IN /\ cache' = c
                  /\ metadata' = md
                  /\ flows' = [flows EXCEPT ![t][f] = moved]
                  /\ calls' = NotifyListeners(listeners[t], throwAt,
                       [type |-> in.type, apiObject |-> in.object,
                        watchObject |-> watchObject,
                        index |-> SeenByListeners(cache, c)[t],
                        lastResourceVersion |->
                          SeenByListeners(metadata, md)[t].lastResourceVersion])
                  /\ lastOp' = [op |-> "event", gvk |-> t, flow |-> f,
                                type |-> in.type, object |-> in.object,
                                threw |-> throwAt # 0,
                                thrower |-> IF throwAt = 0 THEN {}
                                            ELSE {listeners[t][throwAt]}]
          ELSE /\ throwAt = 0
               /\ IF in.type = ERROR /\ IsExpired(in.object)
                  THEN /\ metadata' = ClearToken(metadata, t)
                       /\ flows' = [flows EXCEPT ![t][f] =
                                      Abort(ClearToken(metadata, t), t, moved)]
                  ELSE /\ metadata' = metadata
                       /\ flows' = [flows EXCEPT ![t][f] = moved]
               /\ cache' = cache
               /\ calls' = << >>
               /\ lastOp' = [op |-> "event", gvk |-> t, flow |-> f,
                             type |-> in.type, object |-> in.object,
                             threw |-> FALSE, thrower |-> {}]
  /\ UNCHANGED << listeners, cacheSync, remote, rlog, nListeners >>

\* the done callback of startWatch, lines 311-319: the stream has ended,
\* because it was aborted or because the connection closed
StreamDone(t, f) ==
  /\ flows[t][f].pc \in {"streaming", "aborted"}
  /\ flows' = [flows EXCEPT ![t][f] =
                 StartWatch(metadata, t, [flows[t][f] EXCEPT !.open = @ - 1])]
  /\ lastOp' = [op |-> "done", gvk |-> t, flow |-> f,
                aborted |-> flows[t][f].pc = "aborted"]
  /\ calls' = << >>
  /\ UNCHANGED << listeners, cache, metadata, cacheSync, remote, rlog, nListeners >>

\* ---------------------------------------------------------- specifications
\* applied is kept by the event-replay specification alone
Untracked == UNCHANGED applied

\* The synchronization flows against a store that changes: registration
\* before start(), start(), and every step of every flow.
Next ==
  \/ \E t \in Types : ~has(cacheSync) /\ AddListener(t) /\ Untracked
  \/ Start /\ Untracked
  \/ \E t \in Types, k \in Keys, del \in BOOLEAN : RemoteChange(t, k, del) /\ Untracked
  \/ \E t \in Types, f \in Flows : ListOk(t, f) /\ Untracked
  \/ \E t \in Types, f \in Flows : ListFail(t, f) /\ Untracked
  \/ \E t \in Types, f \in Flows : WatchOpened(t, f) /\ Untracked
  \/ \E t \in Types, f \in Flows : WatchFail(t, f) /\ Untracked
  \/ \E t \in Types, f \in Flows : \E in \in StreamInputs(t, f), throwAt \in 0..MaxListeners :
       WatchEvent(t, f, in, throwAt) /\ Untracked
  \/ \E t \in Types, f \in Flows : StreamDone(t, f) /\ Untracked

Spec == Init /\ [][Next]_vars

\* The operations a controller calls (addListener at any time, start,
\* waitForSync, get on the cache and on the caching client) while the flows list and stream without a disconnect.
NextFacade ==
  \/ \E t \in Types : AddListener(t) /\ Untracked
  \/ Start /\ Untracked
  \/ WaitForSync /\ Untracked
  \/ \E t \in Types, k \in Keys : Get(t, k) /\ Untracked
  \/ \E t \in Types, k \in Keys, del \in BOOLEAN : RemoteChange(t, k, del) /\ Untracked
  \/ \E t \in Types, f \in Flows : ListOk(t, f) /\ Untracked
  \/ \E t \in Types, f \in Flows : ListFail(t, f) /\ Untracked
  \/ \E t \in Types, f \in Flows : WatchOpened(t, f) /\ Untracked
  \/ \E t \in Types, f \in Flows : \E in \in StreamInputs(t, f), throwAt \in 0..MaxListeners :
       WatchEvent(t, f, in, throwAt) /\ Untracked

SpecFacade == Init /\ [][NextFacade]_vars

\* The caching client in front of the cache: registrations, start(), the
\* flows' lists and streams, changes of the store, and reads through
\* CachedKubeClient.get at any moment.
NextCached ==
  \/ \E t \in Types : AddListener(t) /\ Untracked
  \/ Start /\ Untracked
  \/ \E t \in Types, k \in Keys : CachedGet(t, k) /\ Untracked
  \/ \E t \in Types, k \in Keys, del \in BOOLEAN : RemoteChange(t, k, del) /\ Untracked
  \/ \E t \in Types, f \in Flows : ListOk(t, f) /\ Untracked
  \/ \E t \in Types, f \in Flows : WatchOpened(t, f) /\ Untracked
  \/ \E t \in Types, f \in Flows : \E in \in StreamInputs(t, f) :
       WatchEvent(t, f, in, 0) /\ Untracked

SpecCached == Init /\ [][NextCached]_vars

\* Event replay: both flows have listed an empty type and opened their
\* stream, and the streams deliver any events whatever, of any kind and for
\* any instance, in any order.
Layouts ==
  { ("v1/A" :> << 1, 2 >>),
    ("v1/A" :> << 1 >>) @@ ("v1/B" :> << 2 >>) }

Streaming(t) ==
  [pc |-> "streaming", path |-> {GetAPIResourcePath(t)}, resumeFrom |-> {},
   pre |-> << >>, pos |-> 0, expired |-> FALSE, open |-> 1]

InitEvents ==
  \E layout \in Layouts :
    /\ listeners = layout
    /\ cache = [t \in DOMAIN layout |-> EmptyDict]
    /\ metadata = [t \in DOMAIN layout |->
                     [lastResourceVersion |-> {0},
                      resourcePath |-> GetAPIResourcePath(t)]]
    /\ cacheSync = {1}
    /\ flows = [t \in Types |->
                  [f \in Flows |-> IF t \in DOMAIN layout THEN Streaming(t) ELSE NoFlow]]
    /\ remote = [t \in Types |-> EmptyDict]
    /\ rlog = [t \in Types |-> << >>]
    /\ nListeners = 2
    /\ lastOp = [op |-> "watchOpened", gvk |-> "v1/A", flow |-> 1]
    /\ calls = << >>
    /\ applied = [t \in Types |-> << >>]

Delivered == SumLen(applied, Types)

AnyInputs(t) ==
  { [type |-> type, object |-> KubernetesObject(t, k, Delivered + 1), from |-> "none"] :
      type \in {ADDED, MODIFIED, DELETED}, k \in Keys }
  \cup { [type |-> type, object |-> KubernetesObject(t, "", Delivered + 1), from |-> "none"] :
           type \in {BOOKMARK, UNKNOWN} }
  \cup { [type |-> ERROR, object |-> st, from |-> "none"] : st \in Statuses }

AnyEvent(t, f, in, throwAt) ==
  /\ FallsThrough(in.type) => Delivered < MaxEvents
  /\ WatchEvent(t, f, in, throwAt)
  /\ applied' = IF FallsThrough(in.type)
                THEN [applied EXCEPT ![t] = Append(@, Event(in.type, in.object))]
                ELSE applied

NextEvents ==
  \E t \in Types, f \in Flows : \E in \in AnyInputs(t), throwAt \in 0..MaxListeners :
    AnyEvent(t, f, in, throwAt)

SpecEvents == InitEvents /\ [][NextEvents]_vars

\* Event replay with instances that have metadata but no resourceVersion
\* (V1ObjectMeta.resourceVersion is optional) among the events delivered.
Unversioned(t, k) == [apiVersionKind |-> t, nn |-> k, resourceVersion |-> {}]

UnversionedInputs(t) ==
  { [type |-> type, object |-> Unversioned(t, k), from |-> "none"] :
      type \in {ADDED, MODIFIED, DELETED}, k \in Keys }

NextTokens ==
  \E t \in Types, f \in Flows :
    \E in \in AnyInputs(t) \cup UnversionedInputs(t), throwAt \in 0..MaxListeners :
      AnyEvent(t, f, in, throwAt)

SpecTokens == InitEvents /\ [][NextTokens]_vars

\* The synchronization flows from start() on: the listeners are registered
\* (one type with two listeners, or two types with one each), start() has not
\* been called yet, and the store changes while the flows run.
InitSync ==
  \E layout \in Layouts :
    /\ listeners = layout
    /\ cache = [t \in DOMAIN layout |-> EmptyDict]
    /\ metadata = EmptyDict
    /\ cacheSync = {}
    /\ flows = [t \in Types |-> [f \in Flows |-> NoFlow]]
    /\ remote = [t \in Types |-> EmptyDict]
    /\ rlog = [t \in Types |-> << >>]
    /\ nListeners = 2
    /\ lastOp = [op |-> "addListener", outcome |-> "ok",
                 gvk |-> CHOOSE t \in DOMAIN layout : 2 \in { layout[t][i] : i \in DOMAIN layout[t] },
                 cb |-> 2]
    /\ calls = << >>
    /\ applied = [t \in Types |-> << >>]

NextSync ==
  \/ Start /\ Untracked
  \/ \E t \in Types, k \in Keys, del \in BOOLEAN : RemoteChange(t, k, del) /\ Untracked
  \/ \E t \in Types, f \in Flows : ListOk(t, f) /\ Untracked
  \/ \E t \in Types, f \in Flows : ListFail(t, f) /\ Untracked
  \/ \E t \in Types, f \in Flows : WatchOpened(t, f) /\ Untracked
  \/ \E t \in Types, f \in Flows : WatchFail(t, f) /\ Untracked
  \/ \E t \in Types, f \in Flows : \E in \in StreamInputs(t, f), throwAt \in 0..MaxListeners :
       WatchEvent(t, f, in, throwAt) /\ Untracked
  \/ \E t \in Types, f \in Flows : StreamDone(t, f) /\ Untracked

SpecSync == InitSync /\ [][NextSync]_vars

\* start() called more than once: the listeners are registered, and every
\* start() runs its own startWatch chain for every registered type, all
\* chains on the same cache and metadata, against a store that stays empty
\* (its streams deliver nothing but the expiry of their token).
InitRestart ==
  \E layout \in Layouts :
    /\ listeners = layout
    /\ cache = [t \in DOMAIN layout |-> EmptyDict]
    /\ metadata = EmptyDict
    /\ cacheSync = {}
    /\ flows = [t \in Types |-> [f \in Starts |-> NoFlow]]
    /\ remote = [t \in Types |-> EmptyDict]
    /\ rlog = [t \in Types |-> << >>]
    /\ nListeners = 2
    /\ lastOp = [op |-> "addListener", outcome |-> "ok",
                 gvk |-> CHOOSE t \in DOMAIN layout : 2 \in { layout[t][i] : i \in DOMAIN layout[t] },
                 cb |-> 2]
    /\ calls = << >>
    /\ applied = [t \in Types |-> << >>]

NextRestart ==
  \/ StartIn(Starts) /\ Untracked
  \/ \E t \in Types, f \in Starts : ListOk(t, f) /\ Untracked
  \/ \E t \in Types, f \in Starts : WatchOpened(t, f) /\ Untracked
  \/ \E t \in Types, f \in Starts : \E in \in StreamInputs(t, f) :
       WatchEvent(t, f, in, 0) /\ Untracked
  \/ \E t \in Types, f \in Starts : StreamDone(t, f) /\ Untracked

SpecRestart == InitRestart /\ [][NextRestart]_vars

\* The flows under the scheduling of the event loop: a list call and a watch
\* call that are in flight settle, one way or the other.
Settles ==
  \A t \in Types, f \in Flows :
    /\ WF_vars((ListOk(t, f) \/ ListFail(t, f)) /\ Untracked)
    /\ WF_vars((WatchOpened(t, f) \/ WatchFail(t, f)) /\ Untracked)

SpecLive == Init /\ [][Next]_vars /\ Settles

\* ------------------------------------------------------------------ claims
\* the registered resource types, and those whose first full list succeeded
Registered == DOMAIN listeners
Listed == DOMAIN metadata

\* C1: the readiness future of waitForSync() resolves only after every
\* registered type has completed a successful full list: whenever it has
\* resolved, every registered type is listed.
C1_ReadyOnlyAfterAllListed ==
  (lastOp.op = "waitForSync" /\ lastOp.resolved)
    => Registered \subseteq Listed

\* C2: DefaultCache.get fails with the not-found condition whenever the type
\* was never registered or the key is absent from the Index.
C2_GetNotFound ==
  lastOp.op = "get"
    => ((lastOp.gvk \notin DOMAIN cache \/ lastOp.nn \notin DOMAIN cache[lastOp.gvk])
          => lastOp.outcome = "NotFound")

\* the map that keeps only the latest event of every key, the keys whose
\* latest event is DELETED left out
LastOf(evs, k) ==
  CHOOSE i \in DOMAIN evs :
    /\ namespacedName(evs[i].object) = k
    /\ \A j \in DOMAIN evs : namespacedName(evs[j].object) = k => j <= i

LatestPerKey(evs) ==
  LET seen == { namespacedName(evs[i].object) : i \in DOMAIN evs }
      live == { k \in seen : evs[LastOf(evs, k)].type # DELETED }
  IN [k \in live |-> evs[LastOf(evs, k)].object]

\* C3: after any sequence of ADDED/MODIFIED/DELETED events of a type applied
\* by the stream callback to an initially empty Index, the Index of the type
\* is the map of the latest event per key, deleted keys absent.
C3_Convergence ==
  \A t \in DOMAIN cache : cache[t] = LatestPerKey(applied[t])

\* C3 happens: ADDED a, ADDED b, DELETED a have been applied and left {b}
C3_Witness ==
  \E t \in DOMAIN cache :
    /\ Len(applied[t]) = 3
    /\ applied[t][1].type = ADDED /\ namespacedName(applied[t][1].object) = "ns/a"
    /\ applied[t][2].type = ADDED /\ namespacedName(applied[t][2].object) = "ns/b"
    /\ applied[t][3].type = DELETED /\ namespacedName(applied[t][3].object) = "ns/a"
    /\ cache[t] = ("ns/b" :> applied[t][2].object)

\* the Index that holds exactly the items of a list, each under its key
AsIndex(items) ==
  [k \in { namespacedName(items[i]) : i \in DOMAIN items } |->
     items[CHOOSE i \in DOMAIN items : namespacedName(items[i]) = k]]

\* C4: after a successful full list of a type the Index of the type holds
\* exactly the instances the list returned.
C4_ListReplacesIndex ==
  lastOp.op = "list" => cache[lastOp.gvk] = AsIndex(lastOp.items)

\* C5: after the ERROR event 410/Expired the flow issues a fresh full list
\* before a new stream is opened: no flow whose token expired calls watch or
\* streams before a list has succeeded for it.
C5_RelistBeforeStream ==
  \A t \in Types, f \in Flows :
    flows[t][f].expired => flows[t][f].pc \notin {"opening", "streaming"}

\* a flow that has listed, opened its stream and processed every event the
\* store has for it
Quiescent(t, f) ==
  /\ flows[t][f].pc = "streaming"
  /\ flows[t][f].pre = << >>
  /\ flows[t][f].pos = Len(rlog[t])

\* C6: once the flow of a type has completed its last list and processed all
\* delivered events, the Index of the type equals the remote state.
C6_EventualConsistency ==
  \A t \in Types, f \in Flows : Quiescent(t, f) => cache[t] = remote[t]

\* the Index of a type synchronized from scratch: addListener, then
\* initializeCache on the list
FromScratch(t, items) == InitializeCacheItems((t :> EmptyDict), items)[t]

\* C7: a re-run of the full list leaves the same Index as synchronizing the
\* type from scratch against the same remote state.
C7_IdempotentReplace ==
  lastOp.op = "list" => cache[lastOp.gvk] = FromScratch(lastOp.gvk, lastOp.items)

\* C8: addListener after start() fails and leaves the listener sets and the
\* Index unchanged; before start() it appends the listener to the end of the
\* listener sequence of the type.
C8_RegistrationAfterStart ==
  [][ lastOp'.op = "addListener" =>
        IF has(cacheSync)
        THEN /\ lastOp'.outcome = "Error"
             /\ listeners' = listeners
             /\ cache' = cache
        ELSE /\ lastOp'.outcome = "ok"
             /\ LET t == lastOp'.gvk
                    was == IF t \in DOMAIN listeners THEN listeners[t] ELSE << >>
                IN /\ DOMAIN listeners' = DOMAIN listeners \cup {t}
                   /\ listeners'[t] = Append(was, lastOp'.cb)
                   /\ \A u \in DOMAIN listeners \ {t} : listeners'[u] = listeners[u]
    ]_vars

\* C8 happens: addListener was called after start() and failed
C8_Witness ==
  /\ has(cacheSync)
  /\ lastOp.op = "addListener" /\ lastOp.outcome = "Error"
  /\ \E t \in DOMAIN listeners : Len(listeners[t]) = 2

\* C9: after the stream callback has processed an event that carries an
\* instance with resourceVersion C, of kind ADDED, MODIFIED, DELETED or
\* BOOKMARK, the stored resume token of the type is C.
C9_TokenEqualsCursor ==
  (lastOp.op = "event" /\ lastOp.type \in {ADDED, MODIFIED, DELETED, BOOKMARK})
    => metadata[lastOp.gvk].lastResourceVersion = lastOp.object.resourceVersion

\* the Index of a type reflects an event
Reflects(index, type, object) ==
  IF type = DELETED
  THEN namespacedName(object) \notin DOMAIN index
  ELSE /\ namespacedName(object) \in DOMAIN index
       /\ index[namespacedName(object)] = object

\* the i-th invocation of the last event went to the i-th listener of the
\* type, with the kind, instance and envelope of the event, the Index
\* reflecting the event
InvokedInOrder(i) ==
  /\ i <= Len(listeners[lastOp.gvk])
  /\ calls[i].listener = listeners[lastOp.gvk][i]
  /\ calls[i].type = lastOp.type
  /\ calls[i].apiObject = lastOp.object
  /\ calls[i].watchObject = Event(lastOp.type, lastOp.object)
  /\ Reflects(calls[i].index, lastOp.type, lastOp.object)

C11_IndefiniteRetry ==
  \A t \in Types, f \in Flows :
    (lastOp.op = "done" /\ lastOp.gvk = t /\ lastOp.flow = f)
      ~> (flows[t][f].pc = "streaming")

\* C12: get is a pure local lookup: it invokes no operation of the resource
\* client, starts no list and no watch, and leaves the Index, the type
\* metadata and the listener sets as they were, whether it succeeds or fails.
C12_GetIsPureLookup ==
  [][ lastOp'.op = "get" =>
        /\ lastOp'.client = {}
        /\ cache' = cache
        /\ metadata' = metadata
        /\ listeners' = listeners
        /\ flows' = flows
    ]_vars

\* C12 happens: a get found an instance while the flow of its type streams
C12_Witness ==
  /\ lastOp.op = "get" /\ lastOp.outcome = "ok" /\ has(lastOp.value)
  /\ flows[lastOp.gvk][1].pc = "streaming"
  /\ lastOp.nn \in DOMAIN cache[lastOp.gvk]

\* the flow of the last step, and the stored resume token of its type
LastFlow == flows[lastOp.gvk][lastOp.flow]
LastToken == metadata[lastOp.gvk].lastResourceVersion

\* C13: when a stream ends for another reason than token expiry and the
\* stored resume token is present, the flow calls watch with that token and
\* does not list; the restart lists only when the token has been cleared.
C13_ReopenWithSameToken ==
  lastOp.op = "done" =>
    /\ (~lastOp.aborted /\ has(LastToken))
         => (LastFlow.pc = "opening" /\ LastFlow.resumeFrom = LastToken)
    /\ LastFlow.pc = "listing" => ~has(LastToken)

\* the activities a flow has in progress: its list call in flight, and the
\* streams it has open
Activities(fl) == (IF fl.pc = "listing" THEN 1 ELSE 0) + fl.open

\* C14: with one start() and one terminal notification per stream, a type
\* has at every moment at most one activity in progress among a list in
\* flight and an open stream: never two open streams, never a list in flight
\* while a stream is open.
C14_NoConcurrentReentry ==
  \A t \in Types, f \in Flows : Activities(flows[t][f]) <= 1

\* C14 happens: after an expiry aborted its stream, the flow has restarted
\* and has one stream open again
C14_Witness ==
  /\ lastOp.op = "watchOpened"
  /\ LastFlow.expired
  /\ LastFlow.pc = "streaming" /\ LastFlow.open = 1

\* C15: for every event that advances the resume token, the stored token of
\* the type already equals the cursor of the event when the first listener,
\* and every later one, is invoked for the event.
C15_TokenBeforeListeners ==
  (lastOp.op = "event" /\ FallsThrough(lastOp.type))
    => \A i \in DOMAIN calls :
         calls[i].lastResourceVersion = lastOp.object.resourceVersion

\* C15 happens: the first of two listeners was invoked for a MODIFIED event
\* and found the token moved from the list's cursor to the event's
C15_Witness ==
  /\ lastOp.op = "event" /\ lastOp.type = MODIFIED
  /\ Len(calls) = 2
  /\ calls[1].lastResourceVersion = lastOp.object.resourceVersion
  /\ calls[1].lastResourceVersion # {0}

\* C16: when a listener throws while it is notified of an event, the
\* exception ends the notification (the thrower is the last listener
\* invoked) and nothing is rolled back: the Index reflects the event and the
\* stored resume token is the cursor of the event.
C16_ListenerFault ==
  (lastOp.op = "event" /\ lastOp.threw)
    => /\ Len(calls) >= 1
       /\ calls[Len(calls)].listener \in lastOp.thrower
       /\ \A i \in DOMAIN calls : InvokedInOrder(i)
       /\ Reflects(cache[lastOp.gvk], lastOp.type, lastOp.object)
       /\ LastToken = lastOp.object.resourceVersion

\* C16 happens: the first of two listeners threw on an ADDED event and the
\* second was not invoked
C16_Witness ==
  /\ lastOp.op = "event" /\ lastOp.type = ADDED /\ lastOp.threw
  /\ Len(listeners[lastOp.gvk]) = 2
  /\ lastOp.thrower = {listeners[lastOp.gvk][1]}
  /\ Len(calls) = 1
  /\ namespacedName(lastOp.object) \in DOMAIN cache[lastOp.gvk]

\* the events the switch only logs: a bookmark, an unrecognized kind, and an
\* ERROR whose status is not 410/Expired
OnlyLogged(type, object) ==
  \/ type \in {BOOKMARK, UNKNOWN}
  \/ type = ERROR /\ ~IsExpired(object)

\* C17: a BOOKMARK event, an event of unrecognized kind and an ERROR event
\* whose status is not 410/Expired leave the Index unchanged and do not abort
\* the stream; the last two also leave the stored resume token unchanged.
C17_NonMutatingEvents ==
  [][ (lastOp'.op = "event" /\ OnlyLogged(lastOp'.type, lastOp'.object)) =>
        /\ cache' = cache
        /\ lastOp'.type # BOOKMARK => metadata' = metadata
        /\ flows'[lastOp'.gvk][lastOp'.flow].pc = "streaming"
        /\ flows'[lastOp'.gvk][lastOp'.flow].open = 1
    ]_vars

\* C17 happens: an ERROR event that is not an expiry was processed on a
\* type whose Index holds an instance, and the stream is still open
C17_Witness ==
  /\ lastOp.op = "event" /\ lastOp.type = ERROR /\ ~IsExpired(lastOp.object)
  /\ cache[lastOp.gvk] # EmptyDict
  /\ LastFlow.pc = "streaming"

\* what a dictionary keyed by type holds for the types other than t
OfOthers(f, t) == [u \in DOMAIN f \ {t} |-> f[u]]

\* C18: a step of the flow of a type that processes a list result or a
\* stream event changes the Index and the metadata of that type only: the
\* Index entries, the resume token and the flow of every other type are as
\* they were.
C18_CrossTypeIsolation ==
  [][ lastOp'.op \in {"list", "event"} =>
        /\ OfOthers(cache', lastOp'.gvk) = OfOthers(cache, lastOp'.gvk)
        /\ OfOthers(metadata', lastOp'.gvk) = OfOthers(metadata, lastOp'.gvk)
        /\ OfOthers(flows', lastOp'.gvk) = OfOthers(flows, lastOp'.gvk)
    ]_vars

\* C18 happens: an event of one type was applied while another type has a
\* listed, non-empty Index and a resume token
C18_Witness ==
  /\ lastOp.op = "event" /\ FallsThrough(lastOp.type)
  /\ \E u \in DOMAIN metadata \ {lastOp.gvk} :
       /\ cache[u] # EmptyDict
       /\ has(metadata[u].lastResourceVersion)

\* C19: every watch call of a type carries the stored stream path of the
\* type and, as resumeFrom, the resume token stored at that moment; the call
\* made after a successful list carries the cursor the list returned.
C19_OpensAtStoredToken ==
  /\ \A t \in Types, f \in Flows :
       flows[t][f].pc = "opening" =>
         /\ flows[t][f].path = {metadata[t].resourcePath}
         /\ flows[t][f].resumeFrom = metadata[t].lastResourceVersion
  /\ lastOp.op = "list" =>
       /\ LastFlow.pc = "opening"
       /\ LastFlow.resumeFrom = lastOp.cursor

\* C19 happens: a re-list of a store that has changed was followed by a
\* watch call with the cursor of that list
C19_Witness ==
  /\ lastOp.op = "list" /\ lastOp.relist
  /\ lastOp.cursor # {0}
  /\ LastFlow.pc = "opening"
  /\ LastFlow.resumeFrom = lastOp.cursor
  /\ LastFlow.path = {GetAPIResourcePath(lastOp.gvk)}

\* a flow whose first list has failed
FailedFirstList(t, f) == flows[t][f].pc = "dead" /\ t \notin DOMAIN metadata

\* C20: when the first list of a type fails, the flow of the type stops for
\* good: it makes no further list call and opens no stream, and the Index of
\* the type stays empty; the flows and the Index of the other types are not
\* affected.
C20_InitialListFailureFatal ==
  [][ /\ (lastOp'.op = "listFailed" /\ lastOp'.gvk \notin DOMAIN metadata) =>
           /\ flows'[lastOp'.gvk][lastOp'.flow].pc = "dead"
           /\ lastOp'.gvk \notin DOMAIN metadata'
           /\ cache'[lastOp'.gvk] = EmptyDict
           /\ OfOthers(flows', lastOp'.gvk) = OfOthers(flows, lastOp'.gvk)
           /\ OfOthers(cache', lastOp'.gvk) = OfOthers(cache, lastOp'.gvk)
      /\ \A t \in Types, f \in Flows :
           FailedFirstList(t, f) =>
             /\ flows'[t][f] = flows[t][f]
             /\ t \notin DOMAIN metadata'
             /\ cache'[t] = EmptyDict
    ]_vars

\* C20 happens: the first list of one type has failed, and the flow of the
\* other type has listed, opened its stream and applied an event
C20_Witness ==
  /\ lastOp.op = "event" /\ FallsThrough(lastOp.type)
  /\ cache[lastOp.gvk] # EmptyDict
  /\ \E t \in DOMAIN cache \ {lastOp.gvk} :
       /\ FailedFirstList(t, 1)
       /\ cache[t] = EmptyDict

\* C21: CachedKubeClient.get reads the store exactly when the instance is
\* not in the cache: on a hit the caller gets the cached snapshot and no
\* remote read is made; on a miss (key absent or type not registered)
\* exactly one remote read is made.
C21_FallbackOnMiss ==
  lastOp.op = "cachedGet" =>
    IF lastOp.gvk \in DOMAIN cache /\ lastOp.nn \in DOMAIN cache[lastOp.gvk]
    THEN /\ lastOp.remoteReads = 0
         /\ lastOp.outcome = "ok"
         /\ lastOp.value = {cache[lastOp.gvk][lastOp.nn]}
    ELSE lastOp.remoteReads = 1

\* the startWatch chains of a type that wait for their first list, and those
\* that have a stream open
InitialLists(t) ==
  { f \in DOMAIN flows[t] : flows[t][f].pc = "listing" /\ t \notin DOMAIN metadata }
OpenStreams(t) == { f \in DOMAIN flows[t] : flows[t][f].open > 0 }

\* C22: whatever calls are made, repeated start() calls included, no type
\* ever has more than one initial list issued nor more than one stream open.
C22_OneFlowPerType ==
  \A t \in Types :
    /\ Cardinality(InitialLists(t)) <= 1
    /\ Cardinality(OpenStreams(t)) <= 1

\* C23: once the first list of a type has succeeded, the stored resume token
\* of the type becomes absent only when an ERROR event with status 410 and
\* reason Expired is processed for the type: no ADDED, MODIFIED or DELETED
\* event, with or without a resourceVersion, leaves it absent.
C23_TokenClearedOnlyByExpiry ==
  [][ \A t \in DOMAIN metadata :
        (has(metadata[t].lastResourceVersion) /\ ~has(metadata'[t].lastResourceVersion))
          => /\ lastOp'.op = "event" /\ lastOp'.gvk = t
             /\ lastOp'.type = ERROR
             /\ IsExpired(lastOp'.object)
    ]_vars

====
